---- MODULE Spec2Model ----
(***************************************************************************)
(* Model of the hybrid recommendation engine of the library backend:       *)
(*   app/crud/recommendations.py   (model_data persistence)                *)
(*   app/services/recommender.py   (HybridRecommender)                     *)
(*   app/models/recommendations.py (ModelData table, JSON column)          *)
(*                                                                         *)
(* Floats are scaled integers: similarities and predicted scores are in    *)
(* 0..Scale, weights are tenths.  Python values carry a type tag t so that *)
(* the conversions on the way to and from the store (pickle, to_dict,      *)
(* toarray, the JSON column) are modelled by what they do.                 *)
(***************************************************************************)
EXTENDS Integers, Sequences, FiniteSets, TLC

\* ---------------------------------------------------------------- bounds
MaxSaves == 3        \* successful saves per behaviour
MaxCalls == 4        \* save calls started per behaviour (concurrent spec)
NumDocs == 2         \* distinct JSON documents a crud caller may save
MaxBookId == 2       \* book ids 1..MaxBookId
MaxBooks == 2        \* length of a book list passed to train
MaxUserId == 1       \* user ids 1..MaxUserId
MaxActs == 1         \* length of an activity list passed to train
MaxN == 2            \* n_recommendations, and the limit of the trending query
MaxPairActs == 2     \* length of an activity list passed to prepare_data alone
MaxFitBooks == 3     \* length of a catalogue the content model alone is fitted on
MaxActivityRows == 2 \* rows of user_activities
MaxViewCount == 5    \* view_count of an activity row
MaxStock == 2        \* stock of a book before the first request
MaxOrders == 2       \* rows of orders
MaxTransactions == 2 \* rows of transactions

\* ------------------------------------------------------- program constants
Scale == 100         \* 1.0 as a scaled integer
ContentWeight == 3   \* content_weight = 0.3, in tenths
CollabWeight == 7    \* collab_weight = 0.7, in tenths
DefaultVersion == 1  \* ModelDataBase.version default
ScoreUnit == 1000    \* 1.0 of a normalised trending input, as a scaled integer

VARIABLES
    model_data,      \* the model_data row of "hybrid_recommender", or NoRow
    log,             \* history: the committed saves, oldest first
    sess,            \* concurrent spec: per database session, the save in progress
    ncalls,          \* concurrent spec: save calls started
    rec,             \* the HybridRecommender instance of the sequential program
    last,            \* history: the last call, its inputs, outcome and result
    fn,              \* function spec: the call of a stateless function, inputs and output
    db               \* crud specs: the tables user_activities, books, orders, votes

vars == <<model_data, log, sess, ncalls, rec, last, fn, db>>

\* ------------------------------------------------------------ Python values
PyNone == [t |-> "None"]

pickle_dumps(obj) == [t |-> "bytes", obj |-> obj]

\* pickle.loads accepts a bytes-like object only
CanUnpickle(b) == b.t = "bytes"

pickle_loads(b) == b.obj

\* what json.dumps accepts: str, dict, list (bytes and ndarray are rejected)
JSONSerializable(data) ==
    \A k \in DOMAIN data : data[k].t \in {"str", "dict", "list"}

\* json.loads(json.dumps(v)): the keys of an object come back as strings
json_roundtrip(v) ==
    IF v.t = "dict" THEN [v EXCEPT !.keys = "str"] ELSE v

BundleKeys ==
    {"vectorizer", "content_model", "collaborative_model", "books_data",
     "user_item_matrix"}

\* ---------------------------------------------------------------- the store
NoRow == [t |-> "NoRow"]

Docs == 1..NumDocs

\* a JSON document with the five keys, as a caller of the crud layer may save
JsonBundle(d) == [k \in BundleKeys |-> [t |-> "str", s |-> d]]

ModelDataCreate(data) ==
    [name |-> "hybrid_recommender", version |-> DefaultVersion, data |-> data]

get_model_data(tbl) == tbl

\* mutant of db_commit: the update does not increment the version
db_commit_noincrement(tbl, existing, md, dbOK) ==
    IF ~dbOK THEN [raised |-> "OperationalError", tbl |-> tbl]
    ELSE IF ~JSONSerializable(md.data)
    THEN [raised |-> "StatementError", tbl |-> tbl]
    ELSE IF existing # NoRow
    THEN [raised |-> "no",
          tbl |-> [t |-> "Row", version |-> existing.version,
                   data |-> [k \in DOMAIN md.data |-> json_roundtrip(md.data[k])]]]
    ELSE IF tbl # NoRow THEN [raised |-> "IntegrityError", tbl |-> tbl]
    ELSE [raised |-> "no",
          tbl |-> [t |-> "Row", version |-> md.version,
                   data |-> [k \in DOMAIN md.data |-> json_roundtrip(md.data[k])]]]

\* mutant of db_commit: a failing commit has already written the new version
db_commit_partial(tbl, existing, md, dbOK) ==
    IF (~dbOK \/ ~JSONSerializable(md.data)) /\ existing # NoRow /\ tbl # NoRow
    THEN [raised |-> "OperationalError",
          tbl |-> [tbl EXCEPT !.version = existing.version + 1]]
    ELSE IF ~dbOK THEN [raised |-> "OperationalError", tbl |-> tbl]
    ELSE IF ~JSONSerializable(md.data)
    THEN [raised |-> "StatementError", tbl |-> tbl]
    ELSE IF existing # NoRow
    THEN [raised |-> "no",
          tbl |-> [t |-> "Row", version |-> existing.version + 1,
                   data |-> [k \in DOMAIN md.data |-> json_roundtrip(md.data[k])]]]
    ELSE IF tbl # NoRow THEN [raised |-> "IntegrityError", tbl |-> tbl]
    ELSE [raised |-> "no",
          tbl |-> [t |-> "Row", version |-> md.version,
                   data |-> [k \in DOMAIN md.data |-> json_roundtrip(md.data[k])]]]

\* db.commit() of save_model_data: one transaction, one UPDATE or INSERT.
\*   existing is the row the session read with get_model_data (or NoRow),
\*   tbl the committed table at commit time.
\*   - the store is unavailable: the transaction fails, nothing is written;
\*   - the JSON column cannot serialise the data: the flush fails;
\*   - existing: UPDATE ... SET version = <existing.version + 1>, data = ...
\*     (the new version is computed by the session from the value it read);
\*   - otherwise INSERT, which the unique constraint on name rejects when a
\*     row is there by now.
db_commit(tbl, existing, md, dbOK) ==
    IF ~dbOK THEN [raised |-> "OperationalError", tbl |-> tbl]
    ELSE IF ~JSONSerializable(md.data)
    THEN [raised |-> "StatementError", tbl |-> tbl]
    ELSE IF existing # NoRow
    THEN [raised |-> "no",
          tbl |-> [t |-> "Row", version |-> existing.version + 1,
                   data |-> [k \in DOMAIN md.data |-> json_roundtrip(md.data[k])]]]
    ELSE IF tbl # NoRow THEN [raised |-> "IntegrityError", tbl |-> tbl]
    ELSE [raised |-> "no",
          tbl |-> [t |-> "Row", version |-> md.version,
                   data |-> [k \in DOMAIN md.data |-> json_roundtrip(md.data[k])]]]

\* save_model_data run without interruption: read, then update or insert
save_model_data(tbl, md, dbOK) ==
    db_commit(tbl, get_model_data(tbl), md, dbOK)

\* the history entry of a committed save
Committed(tbl) == [version |-> tbl.version, data |-> tbl.data]


\* ------------------------------------------------------- training inputs
BookIds == 1..MaxBookId

UserIds == 1..MaxUserId

Terms == {"t"}

EstValues == {Scale \div 2, Scale}

\* a book, reduced to its id and the set of terms its content document
\* (title, author, description, genres) yields once stop words are removed
BookRecord == [book_id : BookIds, content : SUBSET Terms]

\* catalogues: non-empty, primary-key book ids are distinct
BookLists ==
    {bs \in UNION {[1..n -> BookRecord] : n \in 1..MaxBooks} :
        \A i, j \in DOMAIN bs : i # j => bs[i].book_id # bs[j].book_id}

ActivityRecord ==
    [user_id : UserIds, book_id : BookIds, interaction_score : {0, Scale}]

ActivityLists == UNION {[1..n -> ActivityRecord] : n \in 0..MaxActs}

\* ------------------------------------------------------ sequence helpers
\* mutant of InsertDesc: an element goes before the elements equal to it
RECURSIVE InsertDesc_before_equal(_, _)
InsertDesc_before_equal(x, s) ==
    IF s = <<>> THEN <<x>>
    ELSE IF Head(s).score > x.score
    THEN <<Head(s)>> \o InsertDesc_before_equal(x, Tail(s))
    ELSE <<x>> \o s

RECURSIVE InsertDesc(_, _)
InsertDesc(x, s) ==
    IF s = <<>> THEN <<x>>
    ELSE IF Head(s).score >= x.score THEN <<Head(s)>> \o InsertDesc(x, Tail(s))
    ELSE <<x>> \o s

\* sorted(items, key=score, reverse=True): stable, equal scores keep their order
RECURSIVE sorted_reverse(_)
sorted_reverse(s) ==
    IF s = <<>> THEN <<>>
    ELSE InsertDesc(s[Len(s)], sorted_reverse(SubSeq(s, 1, Len(s) - 1)))

RECURSIVE InsertAsc(_, _)
InsertAsc(x, s) ==
    IF s = <<>> THEN <<x>>
    ELSE IF Head(s).score <= x.score THEN <<Head(s)>> \o InsertAsc(x, Tail(s))
    ELSE <<x>> \o s

RECURSIVE SortAsc(_)
SortAsc(s) ==
    IF s = <<>> THEN <<>>
    ELSE InsertAsc(s[Len(s)], SortAsc(SubSeq(s, 1, Len(s) - 1)))

Reverse(s) == [i \in 1..Len(s) |-> s[Len(s) + 1 - i]]

\* mutant of Slice: the sequence is not cut
Slice_whole(s, a, b) == s

\* s[a:b] of Python, 0-based and half-open, clipped to the sequence
Slice(s, a, b) ==
    IF a >= Len(s) THEN <<>>
    ELSE SubSeq(s, a + 1, IF b < Len(s) THEN b ELSE Len(s))

\* np.argsort(row)[::-1]: 0-based positions, ascending by value (the sort of
\* short arrays is an insertion sort, equal values keep their order), reversed
argsort_reversed(row) ==
    LET items == [i \in 1..Len(row) |-> [idx |-> i - 1, score |-> row[i]]]
    IN  [i \in 1..Len(row) |-> Reverse(SortAsc(items))[i].idx]

\* ------------------------------------------------------------- fitting
Card(S) == Cardinality(S)

\* TfidfVectorizer.fit: the vocabulary of the corpus
Vocabulary(books) == UNION {books[i].content : i \in DOMAIN books}

\* mutant of Cosine: a document is fully similar to itself, terms or not
Cosine_self_one(a, b) ==
    IF a = b THEN Scale
    ELSE IF a = {} \/ b = {} THEN 0
    ELSE (Scale * Card(a \cap b) * Card(a \cap b)) \div (Card(a) * Card(b))

\* cosine_similarity of the term vectors of two documents, scaled; a document
\* without terms has the zero vector, which normalisation leaves zero.  The
\* value is the squared cosine of the binary term vectors, which orders pairs
\* as the cosine of non-negative vectors does.
Cosine(a, b) ==
    IF a = {} \/ b = {} THEN 0
    ELSE (Scale * Card(a \cap b) * Card(a \cap b)) \div (Card(a) * Card(b))

cosine_similarity(books) ==
    [t |-> "ndarray",
     sim |-> [i \in 1..Len(books) |->
                [j \in 1..Len(books) |-> Cosine(books[i].content, books[j].content)]]]

\* the dict comprehension of prepare_data that numbers the users: it iterates
\* over the set of user ids and subscripts each id with 'user_id', so it
\* raises TypeError as soon as the set has an element
user_ids(acts) ==
    IF {acts[i].user_id : i \in DOMAIN acts} # {}
    THEN [raised |-> TRUE, ids |-> {}]
    ELSE [raised |-> FALSE, ids |-> {}]

book_ids(books) == {books[i].book_id : i \in DOMAIN books}

\* prepare_data.  cells are the (user, book, score) triples handed to
\* csr_matrix, which adds up the triples of one cell.
prepare_data(books, acts) ==
    LET uids == user_ids(acts)
        matrix_data ==
            {<<acts[i].user_id, acts[i].book_id, acts[i].interaction_score>> :
                i \in {k \in DOMAIN acts :
                         /\ acts[k].user_id \in uids.ids
                         /\ acts[k].book_id \in book_ids(books)}}
    IN  IF uids.raised THEN [raised |-> TRUE]
        ELSE [raised |-> FALSE,
              books_df |-> [t |-> "DataFrame", rows |-> books, index |-> "int"],
              user_item_matrix |->
                  [t |-> "csr",
                   shape |-> <<Card(uids.ids), Card(book_ids(books))>>,
                   cells |-> matrix_data]]

\* the users and books of a train set
KnownPairs(acts) ==
    {acts[i].user_id : i \in DOMAIN acts} \X {acts[i].book_id : i \in DOMAIN acts}

\* the predictors SVD.fit may produce on a train set: the factors start from
\* random values, so the estimates are any values of the rating scale
SVDFits(acts) ==
    [t : {"SVD"}, global_mean : EstValues, est : [KnownPairs(acts) -> EstValues]]

\* SVD.predict: the estimate for a known pair, the global mean otherwise
predict(model, user_id, book_id) ==
    IF <<user_id, book_id>> \in DOMAIN model.est
    THEN model.est[<<user_id, book_id>>]
    ELSE model.global_mean

\* ------------------------------------------------------- the recommender
\* HybridRecommender.__init__ before load_model
NewInstance ==
    [alive |-> TRUE,
     content_model |-> PyNone, collaborative_model |-> PyNone,
     books_df |-> PyNone, user_item_matrix |-> PyNone, vectorizer |-> PyNone,
     trained |-> "never"]

\* no instance: the constructor was never called or raised
NoInstance == [NewInstance EXCEPT !.alive = FALSE]

Artifacts(self) ==
    <<self.content_model, self.collaborative_model, self.books_df,
      self.user_item_matrix, self.vectorizer>>

AllNone(self) == \A i \in 1..5 : Artifacts(self)[i] = PyNone

AllSet(self) == \A i \in 1..5 : Artifacts(self)[i] # PyNone

to_dict(df) == [t |-> "dict", keys |-> df.index, rows |-> df.rows]

DataFrame(d) == [t |-> "DataFrame", rows |-> d.rows, index |-> d.keys]

toarray(m) == [t |-> "ndarray", shape |-> m.shape, cells |-> m.cells]

csr_matrix(a) == [t |-> "csr", shape |-> a.shape, cells |-> a.cells]

\* the dict save_model builds from the instance
ModelBundle(self) ==
    [k \in BundleKeys |->
        CASE k = "vectorizer" -> pickle_dumps(self.vectorizer)
          [] k = "content_model" -> pickle_dumps(self.content_model)
          [] k = "collaborative_model" -> pickle_dumps(self.collaborative_model)
          [] k = "books_data" -> to_dict(self.books_df)
          [] k = "user_item_matrix" -> toarray(self.user_item_matrix)]

\* save_model: build the bundle, save it, re-raise any failure
save_model(self, tbl, dbOK) ==
    save_model_data(tbl, ModelDataCreate(ModelBundle(self)), dbOK)

\* mutant of load_model: an absent blob is reported as an error
load_model_absent_raises(self, tbl, dbOK) ==
    [raised |-> TRUE, found |-> FALSE, self |-> self]

\* mutant of load_model: a failure of the store is logged and not re-raised
load_model_swallow(self, tbl, dbOK) ==
    IF ~dbOK THEN [raised |-> FALSE, found |-> FALSE, self |-> self]
    ELSE IF get_model_data(tbl) = NoRow
    THEN [raised |-> FALSE, found |-> FALSE, self |-> self]
    ELSE [raised |-> TRUE, found |-> TRUE, self |-> self]

\* load_model: query the store; no row is "no model"; a row is unpickled and
\* converted field by field, any failure is logged and re-raised
load_model(self, tbl, dbOK) ==
    IF ~dbOK THEN [raised |-> TRUE, found |-> FALSE, self |-> self]
    ELSE LET model_row == get_model_data(tbl) IN
    IF model_row = NoRow THEN [raised |-> FALSE, found |-> FALSE, self |-> self]
    ELSE LET data == model_row.data IN
    IF \/ ~CanUnpickle(data["vectorizer"])
       \/ ~CanUnpickle(data["content_model"])
       \/ ~CanUnpickle(data["collaborative_model"])
       \/ data["books_data"].t # "dict"
       \/ data["user_item_matrix"].t \notin {"ndarray", "list"}
    THEN [raised |-> TRUE, found |-> TRUE, self |-> self]
    ELSE [raised |-> FALSE, found |-> TRUE,
          self |-> [self EXCEPT
                      !.vectorizer = pickle_loads(data["vectorizer"]),
                      !.content_model = pickle_loads(data["content_model"]),
                      !.collaborative_model = pickle_loads(data["collaborative_model"]),
                      !.books_df = DataFrame(data["books_data"]),
                      !.user_item_matrix = csr_matrix(data["user_item_matrix"])]]

\* train: each assignment to self happens where the code makes it, so a
\* failure leaves what was assigned before it
train(self, books, acts, tbl, dbOK, svd) ==
    LET pd == prepare_data(books, acts) IN
    IF pd.raised THEN [raised |-> TRUE, self |-> self, tbl |-> tbl]
    ELSE
    LET s1 == [self EXCEPT !.books_df = pd.books_df,
                           !.user_item_matrix = pd.user_item_matrix,
                           !.vectorizer = [t |-> "TfidfVectorizer", vocabulary |-> {}]]
    IN  \* fit_transform raises ValueError on an empty vocabulary
    IF Vocabulary(books) = {} THEN [raised |-> TRUE, self |-> s1, tbl |-> tbl]
    ELSE
    LET s2 == [s1 EXCEPT
                 !.vectorizer = [t |-> "TfidfVectorizer", vocabulary |-> Vocabulary(books)],
                 !.content_model = cosine_similarity(books),
                 !.collaborative_model = svd]
        sv == save_model(s2, tbl, dbOK)
    IN  [raised |-> sv.raised # "no", self |-> s2, tbl |-> sv.tbl]


\* ----------------------------------------------------------------- queries
NoneInt == -1

\* the truth value Python gives an Optional[int]: None and 0 are false
Truthy(x) == x # NoneInt /\ x # 0

\* mutant of get_content_recommendations: a book_id without a row is looked
\* up as row 0 instead of failing
get_content_recommendations_row0(self, book_id, n) ==
    IF self.books_df = PyNone \/ self.content_model = PyNone THEN <<>>
    ELSE
    LET rows == self.books_df.rows
        hits == {i \in DOMAIN rows : rows[i].book_id = book_id}
        book_idx == IF hits = {} THEN 0
                    ELSE (CHOOSE i \in hits : \A j \in hits : i <= j) - 1
        book_similarities == self.content_model.sim[book_idx + 1]
        similar_indices == Slice(argsort_reversed(book_similarities), 1, n + 1)
    IN  [k \in DOMAIN similar_indices |->
            [book_id |-> rows[similar_indices[k] + 1].book_id,
             score |-> book_similarities[similar_indices[k] + 1]]]

\* get_content_recommendations: every exception is logged and turned into []
\*   books_df or content_model is None            -> TypeError
\*   no row of books_df has the book_id           -> IndexError (index[0])
\*   the index labels are strings                 -> IndexError
\*   the row or a neighbour is outside the matrix or the table -> IndexError
get_content_recommendations(self, book_id, n) ==
    IF self.books_df = PyNone \/ self.content_model = PyNone THEN <<>>
    ELSE
    LET rows == self.books_df.rows
        sim == self.content_model.sim
        hits == {i \in DOMAIN rows : rows[i].book_id = book_id}
    IN
    IF hits = {} \/ self.books_df.index # "int" THEN <<>>
    ELSE
    LET book_idx == (CHOOSE i \in hits : \A j \in hits : i <= j) - 1 IN
    IF book_idx + 1 > Len(sim) THEN <<>>
    ELSE
    LET book_similarities == sim[book_idx + 1]
        similar_indices == Slice(argsort_reversed(book_similarities), 1, n + 1)
    IN
    IF \E k \in DOMAIN similar_indices : similar_indices[k] + 1 > Len(rows)
    THEN <<>>
    ELSE [k \in DOMAIN similar_indices |->
            [book_id |-> rows[similar_indices[k] + 1].book_id,
             score |-> book_similarities[similar_indices[k] + 1]]]

\* get_collaborative_recommendations: every exception is turned into []
get_collaborative_recommendations(self, user_id, n) ==
    IF self.books_df = PyNone \/ self.collaborative_model = PyNone THEN <<>>
    ELSE
    LET rows == self.books_df.rows
        predictions ==
            [i \in DOMAIN rows |->
                [book_id |-> rows[i].book_id,
                 score |-> predict(self.collaborative_model, user_id, rows[i].book_id)]]
    IN  Slice(sorted_reverse(predictions), 0, n)

\* recommendations[book_id] = score on an insertion-ordered dict
RECURSIVE DictPut(_, _, _)
DictPut(d, key, score) ==
    IF d = <<>> THEN <<[book_id |-> key, score |-> score]>>
    ELSE IF Head(d).book_id = key
    THEN <<[book_id |-> key, score |-> score]>> \o Tail(d)
    ELSE <<Head(d)>> \o DictPut(Tail(d), key, score)

DictHas(d, key) == \E i \in DOMAIN d : d[i].book_id = key

DictGet(d, key) == d[CHOOSE i \in DOMAIN d : d[i].book_id = key].score

\* the first loop of get_hybrid_recommendations
RECURSIVE PutContent(_, _)
PutContent(d, recs) ==
    IF recs = <<>> THEN d
    ELSE PutContent(DictPut(d, Head(recs).book_id, ContentWeight * Head(recs).score),
                    Tail(recs))

\* mutant of AddCollab: the collaborative score replaces the content score
RECURSIVE AddCollab_overwrite(_, _)
AddCollab_overwrite(d, recs) ==
    IF recs = <<>> THEN d
    ELSE AddCollab_overwrite(DictPut(d, Head(recs).book_id,
                                     CollabWeight * Head(recs).score),
                             Tail(recs))

\* the second loop of get_hybrid_recommendations
RECURSIVE AddCollab(_, _)
AddCollab(d, recs) ==
    IF recs = <<>> THEN d
    ELSE LET b == Head(recs).book_id
             w == CollabWeight * Head(recs).score
         IN  AddCollab(IF DictHas(d, b) THEN DictPut(d, b, DictGet(d, b) + w)
                       ELSE DictPut(d, b, w),
                       Tail(recs))

get_recommendation_reason(book_id, user_id, source_book_id) ==
    IF Truthy(user_id) /\ Truthy(source_book_id) THEN "similar books and reading history"
    ELSE IF Truthy(user_id) THEN "reading history and preferences"
    ELSE "similarity to books you've viewed"

\* get_hybrid_recommendations.  The ValueError for a call without anchor is
\* raised inside the try block whose handler logs and returns [], and so is
\* everything else: the operation never raises.  In the result comprehension
\* book_id is the candidate, also where the reason is asked for.
get_hybrid_recommendations(self, user_id, book_id, n) ==
    IF ~Truthy(user_id) /\ ~Truthy(book_id)
    THEN [raised |-> FALSE, result |-> <<>>]
    ELSE
    LET content_recs == IF Truthy(book_id)
                        THEN get_content_recommendations(self, book_id, n) ELSE <<>>
        collab_recs == IF Truthy(user_id)
                       THEN get_collaborative_recommendations(self, user_id, n) ELSE <<>>
        recommendations == AddCollab(PutContent(<<>>, content_recs), collab_recs)
        sorted_recs == Slice(sorted_reverse(recommendations), 0, n)
    IN  [raised |-> FALSE,
         result |-> [i \in DOMAIN sorted_recs |->
                       [book_id |-> sorted_recs[i].book_id,
                        score |-> sorted_recs[i].score,
                        reason |-> get_recommendation_reason(
                                       sorted_recs[i].book_id, user_id,
                                       sorted_recs[i].book_id)]]]

\* ------------------------------------------------------------------ state
Sessions == {"s1", "s2"}

IdleSession == [pc |-> "idle", existing |-> NoRow, md |-> ModelDataCreate(JsonBundle(1)),
                outcome |-> "none"]

NoCall ==
    [op |-> "none", user_id |-> NoneInt, book_id |-> NoneInt, n |-> 0,
     nbooks |-> 0, nacts |-> 0, dbOK |-> TRUE, found |-> FALSE,
     raised |-> FALSE, result |-> <<>>, same |-> TRUE, pre_trained |-> "never"]

\* no stateless function was called
NoFn == [op |-> "none"]

\* the books of the books table that orders and transactions name
\* (StockedBookIds), and the tables of the crud layer before any call: no
\* activity, order, transaction or vote row, every book out of stock, one
\* review without votes
StockedBookIds == {1, 2}

EmptyDb ==
    [activities |-> <<>>,
     stock |-> [b \in StockedBookIds |-> 0],
     orders |-> <<>>,
     transactions |-> 0,
     helpful_votes |-> 0,
     votes |-> <<>>]

Init ==
    /\ model_data = NoRow
    /\ log = <<>>
    /\ sess = [s \in Sessions |-> IdleSession]
    /\ ncalls = 0
    /\ rec = NoInstance
    /\ last = NoCall
    /\ fn = NoFn
    /\ db = EmptyDb

\* ------------------------------------------- the sequential program
\* HybridRecommender(db): the fields are reset, then load_model runs; when it
\* raises, no instance comes into being
Construct(dbOK) ==
    LET r == load_model(NewInstance, model_data, dbOK) IN
    /\ rec' = IF r.raised THEN NoInstance ELSE r.self
    /\ last' = [NoCall EXCEPT !.op = "construct", !.dbOK = dbOK, !.found = r.found,
                              !.raised = r.raised,
                              !.same = (Artifacts(r.self) = Artifacts(rec)),
                              !.pre_trained = rec.trained]
    /\ UNCHANGED <<db, fn, model_data, log, sess, ncalls>>

\* recommender.train(books, user_activities).  An instance is trained once:
\* the generate endpoint and the tests construct a recommender and call
\* train on it a single time.
Train(books, acts, dbOK, svd) ==
    LET r == train(rec, books, acts, model_data, dbOK, svd) IN
    /\ rec.alive
    /\ rec.trained = "never"
    /\ Len(log) < MaxSaves
    /\ rec' = [r.self EXCEPT !.trained = IF r.raised THEN "raised" ELSE "ok"]
    /\ model_data' = r.tbl
    /\ log' = IF r.raised THEN log ELSE Append(log, Committed(r.tbl))
    /\ last' = [NoCall EXCEPT !.op = "train", !.nbooks = Len(books), !.nacts = Len(acts),
                              !.dbOK = dbOK, !.raised = r.raised,
                              !.same = (Artifacts(r.self) = Artifacts(rec)),
                              !.pre_trained = rec.trained]
    /\ UNCHANGED <<db, fn, sess, ncalls>>

\* save_model_data(db, ModelDataCreate(name, data)) called by a user of the
\* crud layer with a JSON document, start to finish
SaveModelData(d, dbOK) ==
    LET r == save_model_data(model_data, ModelDataCreate(JsonBundle(d)), dbOK) IN
    /\ Len(log) < MaxSaves
    /\ model_data' = r.tbl
    /\ log' = IF r.raised # "no" THEN log ELSE Append(log, Committed(r.tbl))
    /\ last' = [NoCall EXCEPT !.op = "save_model_data", !.dbOK = dbOK,
                              !.raised = (r.raised # "no"),
                              !.n = IF r.raised # "no" THEN 0 ELSE r.tbl.version]
    /\ UNCHANGED <<db, fn, sess, ncalls, rec>>

GetHybrid(user_id, book_id, n) ==
    LET r == get_hybrid_recommendations(rec, user_id, book_id, n) IN
    /\ rec.alive
    /\ last' = [NoCall EXCEPT !.op = "hybrid", !.user_id = user_id,
                              !.book_id = book_id, !.n = n,
                              !.raised = r.raised, !.result = r.result]
    /\ UNCHANGED <<db, fn, model_data, log, sess, ncalls, rec>>

GetContent(book_id, n) ==
    /\ rec.alive
    /\ last' = [NoCall EXCEPT !.op = "content", !.book_id = book_id, !.n = n,
                              !.raised = FALSE,
                              !.result = get_content_recommendations(rec, book_id, n)]
    /\ UNCHANGED <<db, fn, model_data, log, sess, ncalls, rec>>

Anchors == {NoneInt} \cup (1..(MaxBookId + 1))

UserAnchors == {NoneInt} \cup UserIds

\* the fit is drawn only when train gets as far as fitting
FitChoices(books, acts) ==
    IF prepare_data(books, acts).raised \/ Vocabulary(books) = {}
    THEN {PyNone} ELSE SVDFits(acts)

Next ==
    \/ \E dbOK \in BOOLEAN : Construct(dbOK)
    \/ \E books \in BookLists, acts \in ActivityLists, dbOK \in BOOLEAN :
         \E svd \in FitChoices(books, acts) : Train(books, acts, dbOK, svd)
    \/ \E u \in UserAnchors, b \in Anchors, n \in 1..MaxN : GetHybrid(u, b, n)
    \/ \E b \in 1..(MaxBookId + 1), n \in 1..MaxN : GetContent(b, n)

Spec == Init /\ [][Next]_vars

\* ------------------------------------------- sequential saves and loads
NextSave ==
    \/ \E d \in Docs, dbOK \in BOOLEAN : SaveModelData(d, dbOK)
    \/ \E dbOK \in BOOLEAN : Construct(dbOK)
    \/ \E u \in UserAnchors, b \in Anchors, n \in 1..MaxN : GetHybrid(u, b, n)
    \/ \E b \in 1..(MaxBookId + 1), n \in 1..MaxN : GetContent(b, n)

SpecSave == Init /\ [][NextSave]_vars

\* ------------------------------------------- concurrent saves
\* save_model_data in a session of its own, up to the commit: the session
\* reads the row
BeginSave(s, data) ==
    /\ sess[s].pc = "idle"
    /\ ncalls < MaxCalls
    /\ ncalls' = ncalls + 1
    /\ sess' = [sess EXCEPT ![s] = [pc |-> "read",
                                    existing |-> get_model_data(model_data),
                                    md |-> ModelDataCreate(data),
                                    outcome |-> "none"]]
    /\ UNCHANGED <<db, fn, model_data, log, rec, last>>

\* the commit of the session's update or insert
CommitSave(s, dbOK) ==
    LET r == db_commit(model_data, sess[s].existing, sess[s].md, dbOK) IN
    /\ sess[s].pc = "read"
    /\ model_data' = r.tbl
    /\ log' = IF r.raised # "no" THEN log ELSE Append(log, Committed(r.tbl))
    /\ sess' = [sess EXCEPT ![s] = [IdleSession EXCEPT
                   !.outcome = IF r.raised = "no" THEN "ok" ELSE r.raised]]
    /\ UNCHANGED <<db, fn, ncalls, rec, last>>

\* a fitted instance, as save_model sees it at the end of train
FittedInstance ==
    LET books == <<[book_id |-> 1, content |-> Terms]>> IN
    [NewInstance EXCEPT
        !.books_df = [t |-> "DataFrame", rows |-> books, index |-> "int"],
        !.user_item_matrix = [t |-> "csr", shape |-> <<0, 1>>, cells |-> {}],
        !.vectorizer = [t |-> "TfidfVectorizer", vocabulary |-> Terms],
        !.content_model = cosine_similarity(books),
        !.collaborative_model = [t |-> "SVD", global_mean |-> Scale, est |-> <<>>]]

\* what is saved: JSON documents of crud callers, and save_model's bundle
SavedData == {JsonBundle(d) : d \in Docs} \cup {ModelBundle(FittedInstance)}

NextStore ==
    \/ \E s \in Sessions, data \in SavedData : BeginSave(s, data)
    \/ \E s \in Sessions, dbOK \in BOOLEAN : CommitSave(s, dbOK)

SpecStore == Init /\ [][NextStore]_vars


\* ------------------------------------------- stateless functions
\* activity lists long enough to hold two records of one (user, book) pair
PairActivityLists == UNION {[1..n -> ActivityRecord] : n \in 0..MaxPairActs}

\* prepare_data(books, user_activities) called on its own
PrepareData(books, acts) ==
    /\ fn.op = "none"
    /\ fn' = [op |-> "prepare_data", books |-> books, acts |-> acts,
              out |-> prepare_data(books, acts)]
    /\ UNCHANGED <<model_data, log, sess, ncalls, rec, last, db>>

\* the attributes the Book model defines
BookAttributes ==
    {"book_id", "isbn", "title", "author", "publisher", "publication_year",
     "price", "stock_quantity", "available_for_borrow", "description",
     "created_at", "updated_at", "categories"}

Min2(a, b) == IF a < b THEN a ELSE b

\* 1.0 of a trending score: weights are tenths, the products of the inner sum
\* tenths of tenths of ScoreUnit
ScoreOne == 100 * ScoreUnit

\* mutant of calculate_trending_score: the views are not capped at 100
calculate_trending_score_uncapped(views, ratings, avg_rating) ==
    LET normalized_views == (views * ScoreUnit) \div 100
        normalized_ratings == Min2((ratings * ScoreUnit) \div 50, ScoreUnit)
        normalized_rating == ((avg_rating - 10) * ScoreUnit) \div 40
    IN  10 * 4 * normalized_views + 6 * (7 * normalized_ratings + 3 * normalized_rating)

\* calculate_trending_score(views, ratings, avg_rating); avg_rating in tenths
\* (10..50 is 1.0..5.0), the normalised inputs in 1/ScoreUnit, the result in
\* 1/ScoreOne.  The divisions are exact on these inputs.
calculate_trending_score(views, ratings, avg_rating) ==
    LET view_weight == 4
        rating_weight == 6
        normalized_views == Min2((views * ScoreUnit) \div 100, ScoreUnit)
        normalized_ratings == Min2((ratings * ScoreUnit) \div 50, ScoreUnit)
        normalized_rating == ((avg_rating - 10) * ScoreUnit) \div 40
    IN  10 * view_weight * normalized_views
        + rating_weight * (7 * normalized_ratings + 3 * normalized_rating)

ViewCounts == {0, 1, 50, 99, 100, 101, 150}

RatingCounts == {0, 1, 25, 49, 50, 51, 60}

AvgRatings == {10, 11, 25, 30, 49, 50}

CalculateTrendingScore(views, ratings, avg_rating) ==
    /\ fn.op = "none"
    /\ fn' = [op |-> "calculate_trending_score", views |-> views, ratings |-> ratings,
              avg_rating |-> avg_rating,
              out |-> calculate_trending_score(views, ratings, avg_rating)]
    /\ UNCHANGED <<model_data, log, sess, ncalls, rec, last, db>>

\* a row of the grouped trending query: the aggregates of one book that has
\* activity in the window
TrendRow == [recent_views : {1, 100}, recent_ratings : {0, 50}, average_rating : {10, 50}]

\* the books with activity in the window, with their aggregates
TrendTables == UNION {[S -> TrendRow] : S \in SUBSET BookIds}

RowOrders(S) ==
    {p \in [1..Card(S) -> S] : \A i, j \in 1..Card(S) : i # j => p[i] # p[j]}

\* order_by(desc('recent_views'), desc('average_rating')): the orders the
\* database may return the grouped rows in; rows equal on both keys come in
\* any order
QueryOrders(tbl) ==
    {p \in RowOrders(DOMAIN tbl) :
        \A i, j \in DOMAIN p : i < j =>
            \/ tbl[p[i]].recent_views > tbl[p[j]].recent_views
            \/ /\ tbl[p[i]].recent_views = tbl[p[j]].recent_views
               /\ tbl[p[i]].average_rating >= tbl[p[j]].average_rating}

\* get_trending_books(db, limit, days).  Building the query evaluates
\* Book.rating and Book.reviews, attributes the Book model does not define:
\* AttributeError, nothing catches it.  Past that, the rows come ordered by
\* views and average rating, are cut to limit, and are scored in that order.
get_trending_books(tbl, limit, order) ==
    IF "rating" \notin BookAttributes \/ "reviews" \notin BookAttributes
    THEN [raised |-> TRUE, results |-> <<>>]
    ELSE LET rows == Slice(order, 0, limit) IN
         [raised |-> FALSE,
          results |-> [i \in DOMAIN rows |->
                         [book_id |-> rows[i],
                          trending_score |->
                              calculate_trending_score(tbl[rows[i]].recent_views,
                                                       tbl[rows[i]].recent_ratings,
                                                       tbl[rows[i]].average_rating),
                          recent_views |-> tbl[rows[i]].recent_views,
                          recent_ratings |-> tbl[rows[i]].recent_ratings,
                          average_rating |-> tbl[rows[i]].average_rating]]]

GetTrendingBooks(tbl, limit, order) ==
    /\ fn.op = "none"
    /\ fn' = [op |-> "get_trending_books", tbl |-> tbl, limit |-> limit,
              out |-> get_trending_books(tbl, limit, order)]
    /\ UNCHANGED <<model_data, log, sess, ncalls, rec, last, db>>

\* catalogues in fit-time order, book i in position i, that yield a vocabulary
Catalogues ==
    {bs \in UNION {[1..n -> [book_id : 1..MaxFitBooks, content : SUBSET Terms]] :
                      n \in 1..MaxFitBooks} :
        /\ \A i \in DOMAIN bs : bs[i].book_id = i
        /\ Vocabulary(bs) # {}}

\* the instance as the content part of train leaves it
FittedOn(books) ==
    [NewInstance EXCEPT
        !.books_df = [t |-> "DataFrame", rows |-> books, index |-> "int"],
        !.vectorizer = [t |-> "TfidfVectorizer", vocabulary |-> Vocabulary(books)],
        !.content_model = cosine_similarity(books)]

\* get_content_recommendations(book_id, n) on a content model fitted on books
ContentNeighbours(books, book_id, n) ==
    /\ fn.op = "none"
    /\ fn' = [op |-> "get_content_recommendations", books |-> books,
              book_id |-> book_id, n |-> n,
              out |-> get_content_recommendations(FittedOn(books), book_id, n)]
    /\ UNCHANGED <<model_data, log, sess, ncalls, rec, last, db>>

\* train(books, user_activities) on a fresh instance over an empty store: the
\* call is kept with its inputs and the instance it leaves
TrainFresh(books, acts, svd) ==
    /\ fn.op = "none"
    /\ fn' = [op |-> "train", books |-> books, acts |-> acts,
              out |-> train(NewInstance, books, acts, NoRow, TRUE, svd).self]
    /\ UNCHANGED <<model_data, log, sess, ncalls, rec, last, db>>

\* one call of a stateless function per behaviour
NextFn ==
    /\ fn.op = "none"
    /\ \/ \E books \in BookLists, acts \in PairActivityLists : PrepareData(books, acts)
       \/ \E v \in ViewCounts, r \in RatingCounts, a \in AvgRatings :
            CalculateTrendingScore(v, r, a)
       \/ \E tbl \in TrendTables, limit \in 1..MaxN :
            \E order \in QueryOrders(tbl) : GetTrendingBooks(tbl, limit, order)
       \/ \E books \in Catalogues, b \in 1..MaxFitBooks, n \in 1..MaxN :
            ContentNeighbours(books, b, n)
       \/ \E books \in BookLists, acts \in PairActivityLists :
            \E svd \in FitChoices(books, acts) : TrainFresh(books, acts, svd)

SpecFn == Init /\ [][NextFn]_vars


\* ------------------------------------------- user activities
\* user_activities: the rows in id order (the id is the position); the table
\* has no unique constraint on (user_id, book_id)
ActivityRows(u, b) ==
    {k \in DOMAIN db.activities :
        db.activities[k].user_id = u /\ db.activities[k].book_id = b}

\* get_user_activity: .first() of an unordered query, any matching row, or
\* 0 for None
get_user_activity(u, b) == IF ActivityRows(u, b) = {} THEN {0} ELSE ActivityRows(u, b)

\* calculate_interaction_score, in 1/Scale
calculate_interaction_score(activity) ==
    LET base_score == (IF activity.is_favorite THEN Scale \div 2 ELSE 0)
                      + Min2(activity.view_count * (Scale \div 10), 4 * (Scale \div 10))
    IN  Min2(base_score, Scale)

\* the values a client may send as interaction_score: the schema field is a
\* float without bounds
ScoreInputs == {0, Scale + Scale \div 2}

\* UserActivityCreate bodies
UserActivityCreate ==
    [book_id : BookIds, view_count : {0}, is_favorite : BOOLEAN,
     interaction_score : ScoreInputs]

\* UserActivityUpdate bodies: sent holds the fields the client set, the ones
\* model_dump(exclude_unset=True) keeps
UserActivityUpdate ==
    [sent : SUBSET {"view_count", "is_favorite", "interaction_score"},
     view_count : {0}, is_favorite : {FALSE}, interaction_score : ScoreInputs]

NewActivity(u, a) ==
    [user_id |-> u, book_id |-> a.book_id, view_count |-> a.view_count,
     is_favorite |-> a.is_favorite, interaction_score |-> a.interaction_score]

\* create_user_activity: inserts, whatever the table holds
create_user_activity(tbl, u, a) == Append(tbl, NewActivity(u, a))

CreateUserActivity(u, a) ==
    /\ Len(db.activities) < MaxActivityRows
    /\ db' = [db EXCEPT !.activities = create_user_activity(@, u, a)]
    /\ UNCHANGED <<model_data, log, sess, ncalls, rec, last, fn>>

\* update_user_activity: None when there is no row, else the set fields are
\* assigned as sent
UpdateUserActivity(u, b, upd, k) ==
    /\ k \in get_user_activity(u, b)
    /\ k # 0
    /\ db' = [db EXCEPT !.activities[k] =
                 [f \in DOMAIN @ |->
                    IF f \in upd.sent THEN upd[f] ELSE @[f]]]
    /\ UNCHANGED <<model_data, log, sess, ncalls, rec, last, fn>>

\* record_book_view: one more view on the row and the score recomputed, or a
\* new row with one view and the score 0.1
RecordBookView(u, b, k) ==
    /\ k \in get_user_activity(u, b)
    /\ IF k # 0
       THEN /\ db.activities[k].view_count < MaxViewCount
            /\ db' = [db EXCEPT !.activities[k] =
                         LET viewed == [@ EXCEPT !.view_count = @ + 1] IN
                         [viewed EXCEPT !.interaction_score =
                                           calculate_interaction_score(viewed)]]
       ELSE /\ Len(db.activities) < MaxActivityRows
            /\ db' = [db EXCEPT !.activities =
                         create_user_activity(@, u,
                             [book_id |-> b, view_count |-> 1, is_favorite |-> FALSE,
                              interaction_score |-> Scale \div 10])]
    /\ UNCHANGED <<model_data, log, sess, ncalls, rec, last, fn>>

\* toggle_favorite: the flag flipped and the score recomputed, or a new row
\* with the flag set and the schema's defaults for the rest
ToggleFavorite(u, b, k) ==
    /\ k \in get_user_activity(u, b)
    /\ IF k # 0
       THEN db' = [db EXCEPT !.activities[k] =
                     LET toggled == [@ EXCEPT !.is_favorite = ~@] IN
                     [toggled EXCEPT !.interaction_score =
                                        calculate_interaction_score(toggled)]]
       ELSE /\ Len(db.activities) < MaxActivityRows
            /\ db' = [db EXCEPT !.activities =
                         create_user_activity(@, u,
                             [book_id |-> b, view_count |-> 0, is_favorite |-> TRUE,
                              interaction_score |-> 0])]
    /\ UNCHANGED <<model_data, log, sess, ncalls, rec, last, fn>>

NextAct ==
    \/ \E u \in UserIds, a \in UserActivityCreate : CreateUserActivity(u, a)
    \/ \E u \in UserIds, b \in BookIds, upd \in UserActivityUpdate :
         \E k \in get_user_activity(u, b) : UpdateUserActivity(u, b, upd, k)
    \/ \E u \in UserIds, b \in BookIds :
         \E k \in get_user_activity(u, b) : RecordBookView(u, b, k)
    \/ \E u \in UserIds, b \in BookIds :
         \E k \in get_user_activity(u, b) : ToggleFavorite(u, b, k)

SpecAct == Init /\ [][NextAct]_vars

\* views and favourites only
NextViews ==
    \/ \E u \in UserIds, b \in BookIds :
         \E k \in get_user_activity(u, b) : RecordBookView(u, b, k)
    \/ \E u \in UserIds, b \in BookIds :
         \E k \in get_user_activity(u, b) : ToggleFavorite(u, b, k)

SpecViews == Init /\ [][NextViews]_vars

\* ------------------------------------------- orders and transactions
\* orders.py reads and writes the quantity of a book as book.stock, the Book
\* mapping declares the column as stock_quantity: on that mapping the first
\* read of book.stock raises AttributeError, in create_order before any order
\* exists. The operations below are the code of orders.py over the quantity
\* it addresses, db.stock.

\* OrderStatus
OrderStatus == {"PENDING", "BORROWED", "PURCHASED", "RETURNED", "CANCELLED"}

\* the book ids a request may name: book 0 is not in the books table
OrderBookIds == {0} \cup StockedBookIds

\* TransactionItemCreate: quantity is gt=0
TransactionItem == [book_id : OrderBookIds, quantity : {1, 2}]

\* the item lists of a TransactionCreate
TransactionItems ==
    {<<>>} \cup {<<i>> : i \in TransactionItem}
           \cup {<<i, j>> : i \in TransactionItem, j \in TransactionItem}

\* the outcome of an operation on the tables d: raised, and the tables as the
\* session holds them
Raised(d) == [raised |-> TRUE, db |-> d]
Done(d) == [raised |-> FALSE, db |-> d]

\* the second loop of create_transaction: one decrement per item
RECURSIVE UpdateBookStock(_, _, _)
UpdateBookStock(stock, items, i) ==
    IF i > Len(items) THEN stock
    ELSE UpdateBookStock([stock EXCEPT ![items[i].book_id] = @ - items[i].quantity],
                         items, i + 1)

\* create_transaction: every item is checked against the stock as it is
\* (lines 43-49), then the transaction is added and every item decrements
\* the stock of its book (lines 65-77)
create_transaction(d, items) ==
    IF \E i \in DOMAIN items :
           \/ items[i].book_id \notin StockedBookIds
           \/ d.stock[items[i].book_id] < items[i].quantity
    THEN Raised(d)
    ELSE Done([d EXCEPT !.stock = UpdateBookStock(d.stock, items, 1),
                        !.transactions = @ + 1])

\* create_order: a PENDING order for a book in stock
create_order(d, book_id) ==
    IF book_id \notin StockedBookIds THEN Raised(d)
    ELSE IF d.stock[book_id] <= 0 THEN Raised(d)
    ELSE Done([d EXCEPT !.orders =
                  Append(@, [book_id |-> book_id, status |-> "PENDING",
                             is_borrowed |-> FALSE, is_purchased |-> FALSE])])

borrow_book(d, order_id) ==
    IF order_id \notin DOMAIN d.orders THEN Raised(d)
    ELSE IF d.orders[order_id].status # "PENDING" THEN Raised(d)
    ELSE IF d.stock[d.orders[order_id].book_id] <= 0 THEN Raised(d)
    ELSE Done([d EXCEPT !.stock[d.orders[order_id].book_id] = @ - 1,
                        !.orders[order_id].status = "BORROWED",
                        !.orders[order_id].is_borrowed = TRUE])

\* purchase_book: on a PENDING order the stock is decremented (line 198) and
\* create_transaction, called with one item of quantity 1, checks and
\* decrements it again; on a BORROWED order the local book was never
\* assigned and line 212 raises UnboundLocalError
purchase_book(d, order_id) ==
    IF order_id \notin DOMAIN d.orders THEN Raised(d)
    ELSE IF d.orders[order_id].status \notin {"PENDING", "BORROWED"} THEN Raised(d)
    ELSE IF d.orders[order_id].status = "PENDING"
              /\ d.stock[d.orders[order_id].book_id] <= 0 THEN Raised(d)
    ELSE IF d.orders[order_id].status # "PENDING" THEN Raised(d)
    ELSE LET book_id == d.orders[order_id].book_id
             taken == [d EXCEPT !.stock[book_id] = @ - 1]
             transaction ==
                 create_transaction(taken, <<[book_id |-> book_id, quantity |-> 1]>>)
         IN  IF transaction.raised THEN Raised(transaction.db)
             ELSE Done([transaction.db EXCEPT
                           !.orders[order_id].status = "PURCHASED",
                           !.orders[order_id].is_purchased = TRUE])

\* return_book that leaves is_borrowed as it is
return_book_keep_flag(d, order_id) ==
    IF order_id \notin DOMAIN d.orders THEN Raised(d)
    ELSE IF ~d.orders[order_id].is_borrowed
              \/ d.orders[order_id].status # "BORROWED" THEN Raised(d)
    ELSE Done([d EXCEPT !.stock[d.orders[order_id].book_id] = @ + 1,
                        !.orders[order_id].status = "RETURNED"])

return_book(d, order_id) ==
    IF order_id \notin DOMAIN d.orders THEN Raised(d)
    ELSE IF ~d.orders[order_id].is_borrowed
              \/ d.orders[order_id].status # "BORROWED" THEN Raised(d)
    ELSE Done([d EXCEPT !.stock[d.orders[order_id].book_id] = @ + 1,
                        !.orders[order_id].status = "RETURNED",
                        !.orders[order_id].is_borrowed = FALSE])

cancel_order(d, order_id) ==
    IF order_id \notin DOMAIN d.orders THEN Raised(d)
    ELSE IF d.orders[order_id].status # "PENDING" THEN Raised(d)
    ELSE Done([d EXCEPT !.orders[order_id].status = "CANCELLED"])

\* a request: the operation runs in a session of its own; what it committed
\* is stored, and when it raises the session is closed without a commit
\* (get_db) and the tables stay as they were
Request(op, arg, out) ==
    /\ db' = IF out.raised THEN db ELSE out.db
    /\ fn' = [op |-> op, arg |-> arg, raised |-> out.raised]
    /\ UNCHANGED <<model_data, log, sess, ncalls, rec, last>>

CreateOrder(book_id) ==
    /\ Len(db.orders) < MaxOrders
    /\ Request("create_order", book_id, create_order(db, book_id))

CreateTransaction(items) ==
    /\ db.transactions < MaxTransactions
    /\ Request("create_transaction", items, create_transaction(db, items))

BorrowBook(order_id) == Request("borrow_book", order_id, borrow_book(db, order_id))

PurchaseBook(order_id) ==
    /\ db.transactions < MaxTransactions
    /\ Request("purchase_book", order_id, purchase_book(db, order_id))

ReturnBook(order_id) == Request("return_book", order_id, return_book(db, order_id))

CancelOrder(order_id) == Request("cancel_order", order_id, cancel_order(db, order_id))

\* the stock of the books before the first request
InitOrders ==
    /\ model_data = NoRow
    /\ log = <<>>
    /\ sess = [s \in Sessions |-> IdleSession]
    /\ ncalls = 0
    /\ rec = NoInstance
    /\ last = NoCall
    /\ fn = NoFn
    /\ \E stock \in [StockedBookIds -> 0..MaxStock] : db = [EmptyDb EXCEPT !.stock = stock]

NextOrders ==
    \/ \E book_id \in OrderBookIds : CreateOrder(book_id)
    \/ \E items \in TransactionItems : CreateTransaction(items)
    \/ \E order_id \in 1..MaxOrders : BorrowBook(order_id)
    \/ \E order_id \in 1..MaxOrders : PurchaseBook(order_id)
    \/ \E order_id \in 1..MaxOrders : ReturnBook(order_id)
    \/ \E order_id \in 1..MaxOrders : CancelOrder(order_id)

SpecOrders == InitOrders /\ [][NextOrders]_vars

\* the operations on orders alone
NextLifecycle ==
    \/ \E book_id \in OrderBookIds : CreateOrder(book_id)
    \/ \E order_id \in 1..MaxOrders : BorrowBook(order_id)
    \/ \E order_id \in 1..MaxOrders : PurchaseBook(order_id)
    \/ \E order_id \in 1..MaxOrders : ReturnBook(order_id)
    \/ \E order_id \in 1..MaxOrders : CancelOrder(order_id)

SpecLifecycle == InitOrders /\ [][NextLifecycle]_vars

\* ------------------------------------------- votes on a book review
\* book review 1 exists, its helpful_votes counter is db.helpful_votes; no
\* book review has id 0. review_helpful_votes has no unique constraint on
\* (review_id, user_id)
ReviewIds == {0, 1}
Voters == {1, 2}

\* ReviewHelpfulVoteCreate
ReviewHelpfulVoteCreate == [review_id : ReviewIds, is_helpful : BOOLEAN]

\* the votes of user_id on review_id, by position
VoteRows(d, review_id, user_id) ==
    {k \in DOMAIN d.votes :
        d.votes[k].review_id = review_id /\ d.votes[k].user_id = user_id}

\* the stored votes on review_id with is_helpful = true
HelpfulVotes(d, review_id) ==
    {k \in DOMAIN d.votes : d.votes[k].review_id = review_id /\ d.votes[k].is_helpful}

\* .first() of the query for an existing vote: any matching row, or 0
existing_vote(d, review_id, user_id) ==
    IF VoteRows(d, review_id, user_id) = {} THEN {0} ELSE VoteRows(d, review_id, user_id)

\* vote_review: an existing vote k is overwritten and the counter left as
\* it is (lines 187-192); a new vote is added to the session, and the
\* counter of an existing review is set to the count the query returns
\* (lines 203-207): the session does not flush before a query
\* (autoflush=False), so the count is over the rows stored before this vote
vote_review(d, vote, user_id, k) ==
    IF k # 0
    THEN [d EXCEPT !.votes[k].is_helpful = vote.is_helpful]
    ELSE [d EXCEPT !.votes = Append(@, [review_id |-> vote.review_id,
                                        user_id |-> user_id,
                                        is_helpful |-> vote.is_helpful]),
                   !.helpful_votes = IF vote.review_id = 1
                                     THEN Card(HelpfulVotes(d, vote.review_id))
                                     ELSE @]

VoteReview(vote, user_id, k) ==
    /\ db' = vote_review(db, vote, user_id, k)
    /\ fn' = [op |-> "vote_review", vote |-> vote, user_id |-> user_id,
              existing |-> k # 0]
    /\ UNCHANGED <<model_data, log, sess, ncalls, rec, last>>

NextVotes ==
    \E vote \in ReviewHelpfulVoteCreate, user_id \in Voters :
        \E k \in existing_vote(db, vote.review_id, user_id) : VoteReview(vote, user_id, k)

SpecVotes == Init /\ [][NextVotes]_vars




\* ================================================================ claims

\* C1 (SpecSave): from an empty store, the k-th successful sequential save
\* returns and stores version k (1, 2, 3, ...), so every successful save
\* stores a version greater than the one stored before it.
C1_VersionCountsSaves ==
    /\ (model_data = NoRow) <=> (log = <<>>)
    /\ model_data # NoRow => model_data.version = Len(log)
    /\ \A k \in DOMAIN log : log[k].version = k
    /\ (last.op = "save_model_data" /\ ~last.raised) => last.n = Len(log)

C1_ThreeSaves ==
    /\ Len(log) = 3
    /\ model_data # NoRow
    /\ model_data.version = 3
    /\ last.op = "save_model_data"
    /\ last.n = 3

\* C2 (SpecStore), the claim as stated: interleaved saves under the same name
\* all complete, the stored payload is the one committed last, and every
\* committed save leaves a version greater than the saves committed before it.
C2_InterleavedSavesIncrease ==
    /\ \A s \in Sessions : sess[s].outcome # "IntegrityError"
    /\ \A k \in DOMAIN log : k > 1 => log[k].version > log[k - 1].version
    /\ log # <<>> => model_data # NoRow /\ model_data.data = log[Len(log)].data

\* a save call ends in failure
FailedSave ==
    \E s \in Sessions :
        sess[s].pc = "read" /\ sess'[s].pc = "idle" /\ sess'[s].outcome # "ok"

C4_AbsentBlobIsNoModel ==
    (last.op = "construct" /\ last.dbOK /\ model_data = NoRow)
        => (~last.raised /\ ~last.found /\ rec.alive /\ AllNone(rec))

C4_ConstructedWithoutBlob ==
    /\ last.op = "construct"
    /\ last.dbOK
    /\ model_data = NoRow
    /\ rec.alive

\* C5 (Spec), the claim as stated: train on a non-empty book list and a
\* non-empty activity list returns normally, with all five artifacts set and
\* a blob saved.
C5_TrainSucceeds ==
    (last.op = "train" /\ last.nbooks > 0 /\ last.nacts > 0 /\ last.dbOK)
        => (~last.raised /\ AllSet(rec) /\ model_data # NoRow)

\* C6 (Spec), the claim as stated: a train call that fails leaves the five
\* in-memory artifacts exactly as they were before the call.
C6_FailedTrainKeepsModel ==
    (last.op = "train" /\ last.raised) => last.same

\* C7 (Spec), the claim as stated: train, then construct a fresh instance; the
\* fresh instance loads the saved blob and holds the five artifacts the
\* training instance held.
C7_RoundTrip ==
    (last.op = "construct" /\ last.dbOK /\ last.pre_trained # "never")
        => (rec.alive /\ AllSet(rec) /\ last.same)

\* C8 (Spec), the claim as stated: recommend with neither user_id nor book_id
\* fails with an error that reaches the caller.
C8_NoAnchorRaises ==
    (last.op = "hybrid" /\ ~Truthy(last.user_id) /\ ~Truthy(last.book_id))
        => last.raised

\* C9 (Spec), the claim as stated: recommend with an anchor on an instance
\* that was never trained or loaded fails with a model-not-trained error
\* instead of returning an empty list.
C9_UntrainedRaises ==
    (/\ last.op = "hybrid"
     /\ Truthy(last.user_id) \/ Truthy(last.book_id)
     /\ AllNone(rec))
        => last.raised

FittedBookIds(self) == {self.books_df.rows[i].book_id : i \in DOMAIN self.books_df.rows}

\* C10 (Spec), the claim as stated: the content-neighbour query for a book_id
\* that was not in the fitted book list fails with a not-found error; it
\* never returns a list.
C10_UnknownBookRaises ==
    (/\ last.op = "content"
     /\ rec.books_df # PyNone
     /\ rec.content_model # PyNone
     /\ last.book_id \notin FittedBookIds(rec))
        => last.raised

\* the similarity the fitted matrix holds for two books of the catalogue
BookRow(self, book_id) ==
    CHOOSE i \in DOMAIN self.books_df.rows : self.books_df.rows[i].book_id = book_id

Similarity(self, a, b) == self.content_model.sim[BookRow(self, a)][BookRow(self, b)]

\* C11 (Spec), the claim as stated: for a fitted catalogue of N books and a
\* known book_id, the content-neighbour query with k returns min(k, N-1)
\* entries, never the queried book, and the other books of highest similarity
\* in descending order, also when another book is as similar to the queried
\* book as the queried book is to itself.
C11_ContentNeighbours ==
    (/\ last.op = "content"
     /\ rec.books_df # PyNone
     /\ rec.content_model # PyNone
     /\ last.book_id \in FittedBookIds(rec))
        => LET N == Len(rec.books_df.rows)
               res == last.result
               returned == {res[i].book_id : i \in DOMAIN res}
               others == FittedBookIds(rec) \ {last.book_id}
           IN  /\ Len(res) = IF last.n < N - 1 THEN last.n ELSE N - 1
               /\ last.book_id \notin returned
               /\ \A i \in DOMAIN res :
                     res[i].score = Similarity(rec, last.book_id, res[i].book_id)
               /\ \A i, j \in DOMAIN res : i < j => res[i].score >= res[j].score
               /\ \A b \in others \ returned : \A i \in DOMAIN res :
                     res[i].score >= Similarity(rec, last.book_id, b)

InRecs(recs, b) == \E i \in DOMAIN recs : recs[i].book_id = b

\* a recommend call with both anchors on a fitted instance, seed book known
BothAnchorsFitted ==
    /\ last.op = "hybrid"
    /\ Truthy(last.user_id)
    /\ Truthy(last.book_id)
    /\ AllSet(rec)
    /\ last.book_id \in FittedBookIds(rec)

\* C12 (Spec), the claim as stated: with a seed book S and a user U, every
\* returned candidate B has score content_weight * similarity(S, B) +
\* collab_weight * predict(U, B), whether or not B is in both top-n lists.
C12_BothContributionsAlways ==
    BothAnchorsFitted =>
        \A i \in DOMAIN last.result :
            last.result[i].score =
                ContentWeight * Similarity(rec, last.book_id, last.result[i].book_id)
              + CollabWeight * predict(rec.collaborative_model, last.user_id,
                                       last.result[i].book_id)

\* C12 (Spec), amended: with a seed book S and a user U, the score of every
\* returned candidate B is content_weight * similarity(S, B) if B is among the
\* n content neighbours returned for S (else 0) plus collab_weight *
\* predict(U, B) if B is among the user's n collaborative candidates (else 0).
C12_ContributionsOfTheLists ==
    (last.op = "hybrid" /\ Truthy(last.user_id) /\ Truthy(last.book_id)) =>
        LET c == get_content_recommendations(rec, last.book_id, last.n)
            k == get_collaborative_recommendations(rec, last.user_id, last.n)
        IN  \A i \in DOMAIN last.result :
              LET B == last.result[i].book_id IN
              last.result[i].score =
                  (IF InRecs(c, B)
                   THEN ContentWeight * Similarity(rec, last.book_id, B) ELSE 0)
                + (IF InRecs(k, B)
                   THEN CollabWeight * predict(rec.collaborative_model, last.user_id, B)
                   ELSE 0)

\* a candidate with both contributions next to one with a single contribution
C12_MixedCandidates ==
    /\ BothAnchorsFitted
    /\ LET c == get_content_recommendations(rec, last.book_id, last.n)
           k == get_collaborative_recommendations(rec, last.user_id, last.n)
       IN  /\ \E i \in DOMAIN last.result :
                 /\ InRecs(c, last.result[i].book_id)
                 /\ InRecs(k, last.result[i].book_id)
                 /\ last.result[i].score >
                       CollabWeight * predict(rec.collaborative_model, last.user_id,
                                              last.result[i].book_id)
           /\ \E i \in DOMAIN last.result :
                 InRecs(c, last.result[i].book_id) # InRecs(k, last.result[i].book_id)

\* the book ids in the order the scoring pass of get_hybrid_recommendations
\* meets them: the content neighbours, then the collaborative candidates
ScoringPass(self, user_id, book_id, n) ==
    LET c == IF Truthy(book_id)
             THEN get_content_recommendations(self, book_id, n) ELSE <<>>
        k == IF Truthy(user_id)
             THEN get_collaborative_recommendations(self, user_id, n) ELSE <<>>
    IN  [i \in 1..(Len(c) + Len(k)) |->
            IF i <= Len(c) THEN c[i].book_id ELSE k[i - Len(c)].book_id]

FirstSeen(pass, b) ==
    CHOOSE i \in DOMAIN pass : pass[i] = b /\ \A j \in 1..(i - 1) : pass[j] # b

\* C13 (Spec): the list recommend returns is non-increasing in combined score,
\* and candidates of equal combined score appear in the order in which the
\* scoring pass first met them (content neighbours, then collaborative ones).
C13_SortedStable ==
    last.op = "hybrid" =>
        LET pass == ScoringPass(rec, last.user_id, last.book_id, last.n)
            res == last.result
        IN  \A i, j \in DOMAIN res : i < j =>
              /\ res[i].score >= res[j].score
              /\ res[i].score = res[j].score =>
                    FirstSeen(pass, res[i].book_id) < FirstSeen(pass, res[j].book_id)

\* a result that holds two candidates of equal combined score
C13_TiedCandidates ==
    /\ last.op = "hybrid"
    /\ Truthy(last.user_id)
    /\ \E i, j \in DOMAIN last.result :
          i < j /\ last.result[i].score = last.result[j].score

\* C14 (Spec): recommend never returns more than n candidates and never the
\* same book_id twice; with a user only, on a fitted instance whose catalogue
\* has at least n books, it returns exactly n candidates.
C14_AtMostNDistinct ==
    last.op = "hybrid" =>
        LET res == last.result IN
        /\ Len(res) <= last.n
        /\ \A i, j \in DOMAIN res : i # j => res[i].book_id # res[j].book_id
        /\ (/\ Truthy(last.user_id)
            /\ ~Truthy(last.book_id)
            /\ AllSet(rec)
            /\ Len(rec.books_df.rows) >= last.n) => Len(res) = last.n

\* a user-only call for two candidates on a fitted catalogue of two books
C14_UserOnlyFull ==
    /\ last.op = "hybrid"
    /\ Truthy(last.user_id)
    /\ ~Truthy(last.book_id)
    /\ AllSet(rec)
    /\ last.n >= 2
    /\ Len(rec.books_df.rows) >= last.n
    /\ Len(last.result) = last.n

\* C15 (Spec), the claim as stated: the reason of every returned candidate is
\* decided by the anchors of the call alone: the reading-history template for
\* a user only, the similarity template for a book only, the combined
\* template for both.
C15_ReasonFollowsAnchors ==
    last.op = "hybrid" =>
        \A i \in DOMAIN last.result :
            last.result[i].reason =
                IF Truthy(last.user_id) /\ Truthy(last.book_id)
                THEN "similar books and reading history"
                ELSE IF Truthy(last.user_id)
                THEN "reading history and preferences"
                ELSE "similarity to books you've viewed"

\* the content source of a call fails: an artifact is missing or the seed
\* book has no row
ContentFails(self, book_id) ==
    \/ self.books_df = PyNone
    \/ self.content_model = PyNone
    \/ book_id \notin FittedBookIds(self)

CollabFails(self) == self.books_df = PyNone \/ self.collaborative_model = PyNone

\* the candidates of one source with the source's weight applied
Weighted(recs, weight) ==
    [i \in DOMAIN recs |-> [book_id |-> recs[i].book_id, score |-> weight * recs[i].score]]

BookScores(res) ==
    [i \in DOMAIN res |-> [book_id |-> res[i].book_id, score |-> res[i].score]]

\* C16 (Spec): when one source of a recommend call with both anchors fails and
\* the other succeeds, the call does not fail and returns exactly the other
\* source's candidates with that source's weight, in ranked order.
C16_OneSourceFails ==
    (last.op = "hybrid" /\ Truthy(last.user_id) /\ Truthy(last.book_id)) =>
        /\ (ContentFails(rec, last.book_id) /\ ~CollabFails(rec)) =>
              /\ ~last.raised
              /\ BookScores(last.result) =
                    Weighted(get_collaborative_recommendations(rec, last.user_id, last.n),
                             CollabWeight)
        /\ (CollabFails(rec) /\ ~ContentFails(rec, last.book_id)) =>
              /\ ~last.raised
              /\ BookScores(last.result) =
                    sorted_reverse(
                        Weighted(get_content_recommendations(rec, last.book_id, last.n),
                                 ContentWeight))

\* a call whose seed book is unknown to the fitted catalogue of two books
C16_UnknownSeedKnownUser ==
    /\ last.op = "hybrid"
    /\ Truthy(last.user_id)
    /\ Truthy(last.book_id)
    /\ AllSet(rec)
    /\ last.book_id \notin FittedBookIds(rec)
    /\ Len(rec.books_df.rows) >= 2
    /\ Len(last.result) >= 2

PairRecords(acts, u, b) ==
    {i \in DOMAIN acts : acts[i].user_id = u /\ acts[i].book_id = b}

\* C17 (SpecFn), the claim as stated: when the activity list holds several
\* records for one (user_id, book_id) pair of a catalogue book, prepare_data
\* returns an interaction matrix whose cell for the pair holds the
\* interaction_score of the last such record.
C17_LastRecordWins ==
    fn.op = "prepare_data" =>
        \A u \in UserIds, b \in book_ids(fn.books) :
            Card(PairRecords(fn.acts, u, b)) >= 2 =>
                LET k == CHOOSE i \in PairRecords(fn.acts, u, b) :
                             \A j \in PairRecords(fn.acts, u, b) : j <= i
                IN  /\ ~fn.out.raised
                    /\ \A c \in fn.out.user_item_matrix.cells :
                          (c[1] = u /\ c[2] = b) => c[3] = fn.acts[k].interaction_score
                    /\ \E c \in fn.out.user_item_matrix.cells : c[1] = u /\ c[2] = b

\* the trending score of a row of the query
RowScore(r) == calculate_trending_score(r.recent_views, r.recent_ratings, r.average_rating)

\* C19 (SpecFn), the claim as stated: the trending operation returns a list
\* sorted by trending_score descending, equal scores by average rating
\* descending, that holds the limit books of highest trending_score among
\* the books with activity in the window.
C19_TrendingSortedTop ==
    (fn.op = "get_trending_books" /\ DOMAIN fn.tbl # {}) =>
        LET res == fn.out.results
            returned == {res[i].book_id : i \in DOMAIN res}
        IN  /\ ~fn.out.raised
            /\ Len(res) = Min2(fn.limit, Card(DOMAIN fn.tbl))
            /\ \A i, j \in DOMAIN res : i < j =>
                  \/ res[i].trending_score > res[j].trending_score
                  \/ /\ res[i].trending_score = res[j].trending_score
                     /\ res[i].average_rating >= res[j].average_rating
            /\ \A b \in DOMAIN fn.tbl \ returned : \A i \in DOMAIN res :
                  res[i].trending_score >= RowScore(fn.tbl[b])

\* C20 (SpecFn): for views >= 0, ratings >= 0 and an average rating in 1..5
\* the trending score is 0.4*min(views/100,1) + 0.6*(0.7*min(ratings/50,1) +
\* 0.3*(avg-1)/4), lies in [0,1], and is 1.0 exactly when views >= 100,
\* ratings >= 50 and avg = 5.
C20_TrendingScore ==
    (/\ fn.op = "calculate_trending_score"
     /\ fn.views >= 0 /\ fn.ratings >= 0
     /\ fn.avg_rating >= 10 /\ fn.avg_rating <= 50)
        => /\ fn.out = 400 * Min2(fn.views, 100) + 840 * Min2(fn.ratings, 50)
                       + 450 * (fn.avg_rating - 10)
           /\ fn.out >= 0
           /\ fn.out <= ScoreOne
           /\ (fn.out = ScoreOne) <=>
                 (fn.views >= 100 /\ fn.ratings >= 50 /\ fn.avg_rating = 50)

\* the example of the claim: 150 views, 60 ratings, average 5.0 score 1.0
C20_MaxScore ==
    /\ fn.op = "calculate_trending_score"
    /\ fn.views = 150
    /\ fn.ratings = 60
    /\ fn.avg_rating = 50
    /\ fn.out = ScoreOne

\* C21 (Spec): a failure of the store during save or load reaches the caller:
\* a train call whose save did not store its bundle raises, and a constructor
\* whose load fails raises and yields no instance; neither reports success.
C21_StoreFailurePropagates ==
    /\ (last.op = "train" /\ (~last.dbOK \/ model_data = NoRow)) => last.raised
    /\ (last.op = "train" /\ ~last.raised) =>
          (model_data # NoRow /\ log # <<>> /\ Committed(model_data) = log[Len(log)])
    /\ (last.op = "construct" /\ ~last.dbOK) => (last.raised /\ ~rec.alive)

\* a train call that fitted both models and whose save met an unavailable
\* store
C21_FittedSaveFailed ==
    /\ last.op = "train"
    /\ ~last.dbOK
    /\ AllSet(rec)
    /\ last.raised

\* the books of a catalogue other than book_id, in fit-time order, with their
\* similarity to book_id
RECURSIVE OtherBooks(_, _, _)
OtherBooks(books, book_id, i) ==
    IF i > Len(books) THEN <<>>
    ELSE (IF books[i].book_id = book_id THEN <<>>
          ELSE <<[book_id |-> books[i].book_id,
                  score |-> Cosine(books[CHOOSE k \in DOMAIN books :
                                            books[k].book_id = book_id].content,
                                   books[i].content)]>>)
         \o OtherBooks(books, book_id, i + 1)

\* C23 (SpecFn), the claim as stated: the content-neighbour query returns the
\* stable descending sort of the other books, cut to n: books of equal
\* similarity to the query book come in fit-time order, the earlier first.
\* Stated for the calls whose result does not hold the query book itself.
C23_TiesInFitOrder ==
    (/\ fn.op = "get_content_recommendations"
     /\ fn.book_id \in book_ids(fn.books)
     /\ ~InRecs(fn.out, fn.book_id))
        => fn.out = Slice(sorted_reverse(OtherBooks(fn.books, fn.book_id, 1)), 0, fn.n)

\* C24 (SpecFn), the claim as stated: train fits the interaction matrix and
\* the collaborative predictor from the same activities: every activity of
\* the list, also one whose book is not in the book list, is a cell of the
\* matrix and a known (user, book) pair of the predictor.
C24_MatrixAndPredictorAgree ==
    (fn.op = "train" /\ fn.acts # <<>>) =>
        /\ fn.out.user_item_matrix # PyNone
        /\ fn.out.collaborative_model # PyNone
        /\ \A i \in DOMAIN fn.acts :
              /\ \E c \in fn.out.user_item_matrix.cells :
                    c[1] = fn.acts[i].user_id /\ c[2] = fn.acts[i].book_id
              /\ <<fn.acts[i].user_id, fn.acts[i].book_id>>
                    \in DOMAIN fn.out.collaborative_model.est

\* C22 (SpecAct), the claim as stated: after any sequence of
\* create_user_activity, update_user_activity, record_book_view and
\* toggle_favorite calls every stored activity has interaction_score in [0, 1].
C22_ScoreInUnitInterval ==
    \A k \in DOMAIN db.activities :
        /\ db.activities[k].interaction_score >= 0
        /\ db.activities[k].interaction_score <= Scale

\* C25 (SpecAct), the claim as stated: after any sequence of
\* create_user_activity, record_book_view and toggle_favorite calls there is
\* at most one activity row per (user_id, book_id).
C25_OneRowPerPair ==
    \A u \in UserIds, b \in BookIds : Card(ActivityRows(u, b)) <= 1

\* C26 (SpecViews), the claim as stated: after any sequence of
\* record_book_view and toggle_favorite calls from an empty table the stored
\* interaction_score of a row is (0.5 if is_favorite else 0) +
\* min(0.1 * view_count, 0.4), also right after the first call.
C26_ScoreFollowsFormula ==
    \A k \in DOMAIN db.activities :
        db.activities[k].interaction_score =
            (IF db.activities[k].is_favorite THEN 50 ELSE 0)
            + Min2(10 * db.activities[k].view_count, 40)

OrderOps == {"borrow_book", "purchase_book", "return_book", "cancel_order"}

\* the moves of an order the claim allows
OrderMoves ==
    {<<"PENDING", "BORROWED">>, <<"PENDING", "PURCHASED">>,
     <<"PENDING", "CANCELLED">>, <<"BORROWED", "PURCHASED">>,
     <<"BORROWED", "RETURNED">>}

\* C29 (SpecLifecycle): through borrow_book, purchase_book, return_book and
\* cancel_order an order only moves PENDING->BORROWED, PENDING->PURCHASED,
\* PENDING->CANCELLED, BORROWED->PURCHASED or BORROWED->RETURNED; on an order
\* that is PURCHASED, RETURNED or CANCELLED each of the four is rejected and
\* leaves the orders and the stock unchanged; and is_borrowed is true exactly
\* when the status is BORROWED.
C29_OrderLifecycle ==
    [][/\ \A k \in DOMAIN db'.orders :
             db'.orders[k].is_borrowed <=> (db'.orders[k].status = "BORROWED")
       /\ fn'.op \in OrderOps =>
             /\ Len(db'.orders) = Len(db.orders)
             /\ \A k \in DOMAIN db.orders :
                   \/ db'.orders[k].status = db.orders[k].status
                   \/ /\ k = fn'.arg
                      /\ <<db.orders[k].status, db'.orders[k].status>> \in OrderMoves
             /\ (/\ fn'.arg \in DOMAIN db.orders
                 /\ db.orders[fn'.arg].status \in {"PURCHASED", "RETURNED", "CANCELLED"})
                   => (fn'.raised /\ db'.orders = db.orders /\ db'.stock = db.stock)]_vars

\* an operation on a returned order was rejected while another order is
\* borrowed
C29_RejectedAfterReturn ==
    /\ fn.op \in OrderOps
    /\ fn.arg \in DOMAIN db.orders
    /\ db.orders[fn.arg].status = "RETURNED"
    /\ fn.raised
    /\ \E k \in DOMAIN db.orders : db.orders[k].status = "BORROWED"

\* C30 (SpecVotes), the claim as stated: after any sequence of vote_review
\* calls by any users on a book review its helpful_votes counter equals the
\* number of stored votes on it with is_helpful = true, and there is at most
\* one stored vote per (review, user), also after a user changed an earlier
\* vote.
C30_CounterMatchesVotes ==
    /\ db.helpful_votes = Card(HelpfulVotes(db, 1))
    /\ \A r \in ReviewIds, u \in Voters : Card(VoteRows(db, r, u)) <= 1

====
